---- MODULE Spec2Model ----
(***************************************************************************)
(* The pixi manifest schema of src/schema/model.py as a validator over raw *)
(* documents.  The source is a set of pydantic (v2: constr(pattern=...))   *)
(* declarations; what a declaration means (closed mappings, aliases, the   *)
(* smart union, lax and strict conversions, error aggregation) is modelled *)
(* by the operators Validate* below, one per kind of declaration.          *)
(*                                                                         *)
(* Representation.  Every value, raw or validated, is a record             *)
(* [k |-> kind, v |-> payload].  A string is a sequence of symbols: the    *)
(* symbol "\\" is the backslash character, every other symbol is a run of  *)
(* one or more characters none of which is a backslash ("a", "1", "demo",  *)
(* "linux-64"); the empty sequence is the empty string.  A float is kept   *)
(* in tenths, so FloatV(5) is 0.5 and FloatV(10) is 1.0.                   *)
(* A mapping is a function from key strings to values (unordered; the      *)
(* order of the violations of one mapping follows KeysOf).                 *)
(***************************************************************************)
EXTENDS Integers, Sequences, FiniteSets, TLC

VARIABLES shape, doc, pc, result, redoc, reresult

vars == <<shape, doc, pc, result, redoc, reresult>>

---------------------------------------------------------------------------
(* Values *)

EmptyMap == [q \in {} |-> 0]

None == [k |-> "none", v |-> <<>>]
StrV(s) == [k |-> "str", v |-> s]
IntV(n) == [k |-> "int", v |-> n]
FloatV(tenths) == [k |-> "float", v |-> tenths]
BoolV(b) == [k |-> "bool", v |-> b]
ListV(l) == [k |-> "list", v |-> l]
MapV(m) == [k |-> "map", v |-> m]
UrlV(s) == [k |-> "url", v |-> s]
Instance(cls, fields) == [k |-> "model", v |-> [cls |-> cls, fields |-> fields]]

Word(w) == StrV(<<w>>)

IntToFloat(n) == n * 10
FloatIsIntegral(tenths) == tenths % 10 = 0
FloatToInt(tenths) == tenths \div 10

Backslash == "\\"

RECURSIVE KeysOf(_)
KeysOf(S) ==
    IF S = {} THEN <<>>
    ELSE LET x == CHOOSE y \in S : TRUE IN <<x>> \o KeysOf(S \ {x})

---------------------------------------------------------------------------
(* Type expressions of the source *)

ConStr(min, pat) == [t |-> "constr", min_length |-> min, pattern |-> pat]
FloatT == [t |-> "float", has_gt |-> FALSE, gt |-> 0]
IntT == [t |-> "int"]
BoolT == [t |-> "bool"]
ListOf(item) == [t |-> "list", item |-> item]
DictOf(key, value) == [t |-> "dict", key |-> key, value |-> value]
Model(cls) == [t |-> "model", cls |-> cls]
Union(alts) == [t |-> "union", alts |-> alts]
Nullable(inner) == [t |-> "nullable", inner |-> inner]

NoPattern == ""
NoBackslashPattern == "^[^\\\\]+$"

NonEmptyStr == ConStr(1, NoPattern)
PathNoBackslash == ConStr(0, NoBackslashPattern)
PositiveFloat == [t |-> "float", has_gt |-> TRUE, gt |-> 0]
AnyHttpUrl == [t |-> "url"]

(* A declared field: internal name, external spelling, type, required. *)
Fld(name, type) == [name |-> name, alias |-> name, type |-> type, required |-> FALSE]
Req(name, type) == [name |-> name, alias |-> name, type |-> type, required |-> TRUE]
Aliased(name, alias, type) == [name |-> name, alias |-> alias, type |-> type, required |-> FALSE]

---------------------------------------------------------------------------
(* The declarations of src/schema/model.py *)

ChannelInlineTable ==
    << Req("channel", Union(<<NonEmptyStr, AnyHttpUrl>>)),
       Fld("priority", Nullable(IntT)) >>

Channel == Union(<<NonEmptyStr, Model("ChannelInlineTable")>>)

Project ==
    << Req("name", NonEmptyStr),
       Fld("version", Nullable(NonEmptyStr)),
       Fld("description", Nullable(NonEmptyStr)),
       Fld("authors", Nullable(ListOf(NonEmptyStr))),
       Fld("channels", ListOf(Channel)),
       Req("platforms", ListOf(NonEmptyStr)),
       Fld("license", Nullable(NonEmptyStr)),
       Fld("license_file", Nullable(PathNoBackslash)),
       Fld("readme", Nullable(PathNoBackslash)),
       Fld("homepage", Nullable(AnyHttpUrl)),
       Fld("repository", Nullable(AnyHttpUrl)),
       Fld("documentation", Nullable(AnyHttpUrl)) >>

MatchspecTable ==
    << Fld("version", Nullable(NonEmptyStr)),
       Fld("build", Nullable(NonEmptyStr)),
       Fld("channel", Nullable(NonEmptyStr)) >>

MatchSpec == Union(<<NonEmptyStr, Model("MatchspecTable")>>)
CondaPackageName == NonEmptyStr

PyPIRequirementTable ==
    << Fld("version", Nullable(NonEmptyStr)),
       Fld("extras", Nullable(ListOf(NonEmptyStr))) >>

PyPIRequirement == Union(<<NonEmptyStr, Model("PyPIRequirementTable")>>)
PyPIPackageName == NonEmptyStr

Dependencies == Nullable(DictOf(CondaPackageName, MatchSpec))
DependenciesField == Fld("dependencies", Dependencies)
HostDependenciesField == Aliased("host_dependencies", "host-dependencies", Dependencies)
BuildDependenciesField == Aliased("build_dependencies", "build-dependencies", Dependencies)
PyPIDependenciesField ==
    Aliased("pypi_dependencies", "pypi-dependencies",
            Nullable(DictOf(PyPIPackageName, PyPIRequirement)))

TaskName == NonEmptyStr

TaskInlineTable ==
    << Fld("cmd", Nullable(Union(<<ListOf(NonEmptyStr), NonEmptyStr>>))),
       Fld("cwd", Nullable(PathNoBackslash)),
       Fld("depends_on", Nullable(Union(<<ListOf(NonEmptyStr), NonEmptyStr>>))) >>

Task == Union(<<Model("TaskInlineTable"), NonEmptyStr>>)
TasksField == Fld("tasks", Nullable(DictOf(TaskName, Task)))

LibcFamily ==
    << Fld("family", Nullable(NonEmptyStr)),
       Fld("version", Nullable(Union(<<FloatT, NonEmptyStr>>))) >>

SystemRequirements ==
    << Fld("linux", Nullable(Union(<<PositiveFloat, NonEmptyStr>>))),
       Fld("unix", Nullable(Union(<<BoolT, NonEmptyStr>>))),
       Fld("libc", Nullable(Union(<<Model("LibcFamily"), FloatT, NonEmptyStr>>))),
       Fld("cuda", Nullable(Union(<<FloatT, NonEmptyStr>>))),
       Fld("archspec", Nullable(NonEmptyStr)),
       Fld("macos", Nullable(Union(<<PositiveFloat, NonEmptyStr>>))) >>

SystemRequirementsField ==
    Aliased("system_requirements", "system-requirements", Nullable(Model("SystemRequirements")))

EnvironmentName == NonEmptyStr
FeatureName == NonEmptyStr
SolveGroupName == NonEmptyStr

Environment ==
    << Fld("features", Nullable(ListOf(FeatureName))),
       Aliased("solve_group", "solve-group", Nullable(SolveGroupName)) >>

Activation ==
    << Fld("scripts", Nullable(ListOf(NonEmptyStr))) >>

ActivationField == Fld("activation", Nullable(Model("Activation")))

TargetName == NonEmptyStr

Target ==
    << DependenciesField,
       HostDependenciesField,
       BuildDependenciesField,
       PyPIDependenciesField,
       TasksField,
       ActivationField >>

TargetField == Fld("target", Nullable(DictOf(TargetName, Model("Target"))))

Feature ==
    << Fld("channels", Nullable(ListOf(Channel))),
       Fld("platforms", Nullable(ListOf(NonEmptyStr))),
       DependenciesField,
       HostDependenciesField,
       BuildDependenciesField,
       PyPIDependenciesField,
       TasksField,
       ActivationField,
       SystemRequirementsField,
       TargetField >>

BaseManifest ==
    << Req("project", Model("Project")),
       DependenciesField,
       HostDependenciesField,
       BuildDependenciesField,
       PyPIDependenciesField,
       TasksField,
       SystemRequirementsField,
       Fld("environments",
           Nullable(DictOf(EnvironmentName,
                           Union(<<Model("Environment"), ListOf(FeatureName)>>)))),
       Fld("feature", Nullable(DictOf(FeatureName, Model("Feature")))),
       ActivationField,
       TargetField >>

Entities ==
    { "ChannelInlineTable", "Project", "MatchspecTable", "PyPIRequirementTable",
      "TaskInlineTable", "LibcFamily", "SystemRequirements", "Environment",
      "Activation", "Target", "Feature", "BaseManifest" }

FieldsOf(cls) ==
    CASE cls = "ChannelInlineTable" -> ChannelInlineTable
      [] cls = "Project" -> Project
      [] cls = "MatchspecTable" -> MatchspecTable
      [] cls = "PyPIRequirementTable" -> PyPIRequirementTable
      [] cls = "TaskInlineTable" -> TaskInlineTable
      [] cls = "LibcFamily" -> LibcFamily
      [] cls = "SystemRequirements" -> SystemRequirements
      [] cls = "Environment" -> Environment
      [] cls = "Activation" -> Activation
      [] cls = "Target" -> Target
      [] cls = "Feature" -> Feature
      [] cls = "BaseManifest" -> BaseManifest

---------------------------------------------------------------------------
(* Outcomes and violations.  A violation carries the path from the value   *)
(* being validated (keys, list indexes and, inside a union, the label of   *)
(* the alternative that was attempted) and pydantic's error type.          *)

Err(loc, type) == [loc |-> loc, type |-> type]
Ok(val) == [ok |-> TRUE, val |-> val, errs |-> <<>>]
Fail(errs) == [ok |-> FALSE, val |-> None, errs |-> errs]

---------------------------------------------------------------------------
(* Scalar validators *)

Digits == {"0", "1"}
DigitValue(c) == IF c = "1" THEN 1 ELSE 0
IsNumeral(s) == Len(s) >= 1 /\ \A i \in 1..Len(s) : s[i] \in Digits

RECURSIVE ParseNat(_)
ParseNat(s) ==
    IF Len(s) = 0 THEN 0
    ELSE 10 * ParseNat(SubSeq(s, 1, Len(s) - 1)) + DigitValue(s[Len(s)])

(* r"^[^\\]+$": from the start, one or more characters other than the      *)
(* backslash, then the end of the string.                                  *)
RECURSIVE ScanNoBackslash(_, _)
ScanNoBackslash(s, i) ==
    IF i <= Len(s) /\ s[i] # Backslash THEN ScanNoBackslash(s, i + 1) ELSE i

(* Mutant: the pattern without its end anchor. *)
MatchNoBackslashPrefix(s) == ScanNoBackslash(s, 1) > 1

MatchNoBackslash(s) ==
    LET stop == ScanNoBackslash(s, 1)
    IN stop > 1 /\ stop = Len(s) + 1

PatternMatches(pat, s) ==
    CASE pat = NoPattern -> TRUE
      [] pat = NoBackslashPattern -> MatchNoBackslash(s)

ValidateConStr(T, x, loc) ==
    IF x.k # "str" THEN Fail(<<Err(loc, "string_type")>>)
    ELSE IF Len(x.v) < T.min_length THEN Fail(<<Err(loc, "string_too_short")>>)
    ELSE IF ~PatternMatches(T.pattern, x.v)
         THEN Fail(<<Err(loc, "string_pattern_mismatch")>>)
    ELSE Ok(x)

(* Mutant: the bound of a constrained float read as "at least". *)
ValidateFloatAtLeast(T, x, loc, strict) ==
    LET conv ==
          CASE x.k = "float" -> Ok(x)
            [] x.k = "int" -> Ok(FloatV(IntToFloat(x.v)))
            [] x.k = "str" /\ ~strict ->
                 IF IsNumeral(x.v) THEN Ok(FloatV(IntToFloat(ParseNat(x.v))))
                 ELSE Fail(<<Err(loc, "float_parsing")>>)
            [] x.k = "bool" /\ ~strict -> Ok(FloatV(IF x.v THEN IntToFloat(1) ELSE 0))
            [] OTHER -> Fail(<<Err(loc, "float_type")>>)
    IN IF conv.ok /\ T.has_gt /\ ~(conv.val.v >= IntToFloat(T.gt))
       THEN Fail(<<Err(loc, "greater_than")>>)
       ELSE conv

ValidateFloat(T, x, loc, strict) ==
    LET conv ==
          CASE x.k = "float" -> Ok(x)
            [] x.k = "int" -> Ok(FloatV(IntToFloat(x.v)))
            [] x.k = "str" /\ ~strict ->
                 IF IsNumeral(x.v) THEN Ok(FloatV(IntToFloat(ParseNat(x.v))))
                 ELSE Fail(<<Err(loc, "float_parsing")>>)
            [] x.k = "bool" /\ ~strict -> Ok(FloatV(IF x.v THEN IntToFloat(1) ELSE 0))
            [] OTHER -> Fail(<<Err(loc, "float_type")>>)
    IN IF conv.ok /\ T.has_gt /\ ~(conv.val.v > IntToFloat(T.gt))
       THEN Fail(<<Err(loc, "greater_than")>>)
       ELSE conv

ValidateInt(x, loc, strict) ==
    CASE x.k = "int" -> Ok(x)
      [] x.k = "float" /\ ~strict ->
           IF FloatIsIntegral(x.v) THEN Ok(IntV(FloatToInt(x.v)))
           ELSE Fail(<<Err(loc, "int_from_float")>>)
      [] x.k = "str" /\ ~strict ->
           IF IsNumeral(x.v) THEN Ok(IntV(ParseNat(x.v)))
           ELSE Fail(<<Err(loc, "int_parsing")>>)
      [] x.k = "bool" /\ ~strict -> Ok(IntV(IF x.v THEN 1 ELSE 0))
      [] OTHER -> Fail(<<Err(loc, "int_type")>>)

TrueWords == {<<"1">>, <<"true">>, <<"yes">>, <<"on">>, <<"t">>, <<"y">>}
FalseWords == {<<"0">>, <<"false">>, <<"no">>, <<"off">>, <<"f">>, <<"n">>}

ValidateBool(x, loc, strict) ==
    CASE x.k = "bool" -> Ok(x)
      [] x.k = "int" /\ ~strict ->
           IF x.v \in {0, 1} THEN Ok(BoolV(x.v = 1))
           ELSE Fail(<<Err(loc, "bool_parsing")>>)
      [] x.k = "float" /\ ~strict ->
           IF x.v \in {0, IntToFloat(1)} THEN Ok(BoolV(x.v # 0))
           ELSE Fail(<<Err(loc, "bool_parsing")>>)
      [] x.k = "str" /\ ~strict ->
           IF x.v \in TrueWords \cup FalseWords THEN Ok(BoolV(x.v \in TrueWords))
           ELSE Fail(<<Err(loc, "bool_parsing")>>)
      [] OTHER -> Fail(<<Err(loc, "bool_type")>>)

(* An absolute http URL: the scheme, a non-empty host, then any path.  The *)
(* parsed URL is kept normalised: a backslash of the path reads as a       *)
(* slash, and a URL without a path gets the path "/".                      *)
HttpScheme == "http://"
Slash == "/"

IsHttpUrl(s) ==
    /\ Len(s) >= 2
    /\ s[1] = HttpScheme
    /\ s[2] \notin {Backslash, Slash, HttpScheme}

UrlNormalize(s) ==
    LET t == [i \in 1..Len(s) |-> IF s[i] = Backslash THEN Slash ELSE s[i]]
    IN IF \E i \in 2..Len(t) : t[i] = Slash THEN t ELSE Append(t, Slash)

ValidateUrl(x, loc) ==
    CASE x.k = "url" -> Ok(x)
      [] x.k = "str" ->
           IF IsHttpUrl(x.v) THEN Ok(UrlV(UrlNormalize(x.v)))
           ELSE Fail(<<Err(loc, "url_parsing")>>)
      [] OTHER -> Fail(<<Err(loc, "url_type")>>)

---------------------------------------------------------------------------
(* Composite validators *)

RECURSIVE FlattenErrs(_)
FlattenErrs(rs) ==
    IF Len(rs) = 0 THEN <<>> ELSE Head(rs).errs \o FlattenErrs(Tail(rs))

(* Mutant: validation that stops at the first violation. *)
AggregateFirstOnly(rs) ==
    IF FlattenErrs(rs) = <<>> THEN <<>> ELSE <<Head(FlattenErrs(rs))>>

(* The violations of the parts of one value, all of them. *)
Aggregate(rs) == FlattenErrs(rs)

Collect(rs, val) ==
    IF \A i \in 1..Len(rs) : rs[i].ok THEN Ok(val) ELSE Fail(Aggregate(rs))

(* Mutant: fields read under their internal names. *)
InputKeyByName(f) == f.name

(* The key under which a field is read from the raw mapping. *)
InputKey(f) == f.alias

(* Mutant: the internal names allowed beside the external ones. *)
DeclaredKeysAndNames(fields) ==
    { fields[i].alias : i \in 1..Len(fields) } \cup { fields[i].name : i \in 1..Len(fields) }

DeclaredKeys(fields) == { InputKey(fields[i]) : i \in 1..Len(fields) }

(* Mutant: the closed-world check that stops at the first unknown key. *)
ExtraKeysFirstOnly(fields, m) ==
    LET extras == DOMAIN m \ DeclaredKeys(fields)
    IN IF extras = {} THEN {} ELSE {CHOOSE key \in extras : TRUE}

(* extra = "forbid": every key of the input that no field declares. *)
ExtraKeys(fields, m) == DOMAIN m \ DeclaredKeys(fields)

ExtraErrs(fields, m, loc) ==
    LET ks == KeysOf(ExtraKeys(fields, m))
    IN [i \in 1..Len(ks) |-> Fail(<<Err(Append(loc, ks[i]), "extra_forbidden")>>)]

(* Mutant: a required field that falls back to the default. *)
AbsentFieldNeverMissing(f, loc) == Ok(None)

(* Mutant: an absent list or mapping field defaulting to the empty one. *)
AbsentFieldEmptyDefault(f, loc) ==
    LET T == IF f.type.t = "nullable" THEN f.type.inner ELSE f.type
    IN IF f.required THEN Fail(<<Err(Append(loc, f.alias), "missing")>>)
       ELSE IF T.t = "list" THEN Ok(ListV(<<>>))
       ELSE IF T.t = "dict" THEN Ok(MapV(EmptyMap))
       ELSE Ok(None)

(* A field the input does not supply: its default, None, unless required. *)
AbsentField(f, loc) ==
    IF f.required THEN Fail(<<Err(Append(loc, InputKey(f)), "missing")>>)
    ELSE Ok(None)

FieldIndex(fields, name) == CHOOSE i \in 1..Len(fields) : fields[i].name = name

KeyStr(key) == IF key = "" THEN StrV(<<>>) ELSE StrV(<<key>>)

AltLabel(T) ==
    CASE T.t = "constr" -> "constrained-str"
      [] T.t = "float" -> IF T.has_gt THEN "constrained-float" ELSE "float"
      [] T.t = "int" -> "int"
      [] T.t = "bool" -> "bool"
      [] T.t = "url" -> "url"
      [] T.t = "list" -> "list[constrained-str]"
      [] T.t = "model" -> T.cls

FirstOk(rs) == CHOOSE i \in 1..Len(rs) : rs[i].ok /\ \A j \in 1..(i - 1) : ~rs[j].ok

(* Union in a strict pass: the alternatives in order, each strict. *)
StrictResolve(strictRs) ==
    IF \E i \in 1..Len(strictRs) : strictRs[i].ok THEN strictRs[FirstOk(strictRs)]
    ELSE Fail(Aggregate(strictRs))

(* Mutant: the union resolved left to right, conversions included. *)
LeftToRightResolve(strictRs, laxRs) ==
    IF \E i \in 1..Len(laxRs) : laxRs[i].ok THEN laxRs[FirstOk(laxRs)]
    ELSE Fail(Aggregate(laxRs))

(* pydantic's smart union: the first alternative that accepts the input    *)
(* as it is (strict); failing that, the first that accepts it after        *)
(* conversion (lax); failing that, the violations of every alternative.    *)
SmartResolve(strictRs, laxRs) ==
    IF \E i \in 1..Len(strictRs) : strictRs[i].ok THEN strictRs[FirstOk(strictRs)]
    ELSE IF \E i \in 1..Len(laxRs) : laxRs[i].ok THEN laxRs[FirstOk(laxRs)]
    ELSE Fail(Aggregate(laxRs))

RECURSIVE Validate(_, _, _, _)
Validate(T, x, loc, strict) ==
    CASE T.t = "constr" -> ValidateConStr(T, x, loc)
      [] T.t = "float" -> ValidateFloat(T, x, loc, strict)
      [] T.t = "int" -> ValidateInt(x, loc, strict)
      [] T.t = "bool" -> ValidateBool(x, loc, strict)
      [] T.t = "url" -> ValidateUrl(x, loc)
      [] T.t = "nullable" ->
           IF x.k = "none" THEN Ok(None) ELSE Validate(T.inner, x, loc, strict)
      [] T.t = "list" ->
           IF x.k # "list" THEN Fail(<<Err(loc, "list_type")>>)
           ELSE LET rs == [i \in 1..Len(x.v) |->
                             Validate(T.item, x.v[i], Append(loc, ToString(i - 1)), strict)]
                IN Collect(rs, ListV([i \in 1..Len(x.v) |-> rs[i].val]))
      [] T.t = "dict" ->
           IF x.k # "map" THEN Fail(<<Err(loc, "dict_type")>>)
           ELSE LET ks == KeysOf(DOMAIN x.v)
                    keyRs == [i \in 1..Len(ks) |->
                                Validate(T.key, KeyStr(ks[i]), loc \o <<ks[i], "[key]">>, strict)]
                    valRs == [i \in 1..Len(ks) |->
                                Validate(T.value, x.v[ks[i]], Append(loc, ks[i]), strict)]
                    at(key) == CHOOSE i \in 1..Len(ks) : ks[i] = key
                IN Collect(keyRs \o valRs,
                           MapV([key \in DOMAIN x.v |-> valRs[at(key)].val]))
      [] T.t = "model" ->
           IF x.k = "model" /\ x.v.cls = T.cls THEN Ok(x)
           ELSE IF x.k # "map" THEN Fail(<<Err(loc, "model_type")>>)
           ELSE IF strict THEN Fail(<<Err(loc, "model_class_type")>>)
           ELSE LET fields == FieldsOf(T.cls)
                    rs == [i \in 1..Len(fields) |->
                             IF InputKey(fields[i]) \in DOMAIN x.v
                             THEN Validate(fields[i].type, x.v[InputKey(fields[i])],
                                           Append(loc, InputKey(fields[i])), strict)
                             ELSE AbsentField(fields[i], loc)]
                    names == { fields[i].name : i \in 1..Len(fields) }
                IN Collect(rs \o ExtraErrs(fields, x.v, loc),
                           Instance(T.cls,
                                    [n \in names |-> rs[FieldIndex(fields, n)].val]))
      [] T.t = "union" ->
           LET strictRs == [i \in 1..Len(T.alts) |-> Validate(T.alts[i], x, loc, TRUE)]
               laxRs == [i \in 1..Len(T.alts) |->
                           Validate(T.alts[i], x, Append(loc, AltLabel(T.alts[i])), FALSE)]
           IN IF strict THEN StrictResolve(strictRs) ELSE SmartResolve(strictRs, laxRs)

(* BaseManifest.model_validate(document), and the same for any shape. *)
ValidateAs(T, x) == Validate(T, x, <<>>, FALSE)

---------------------------------------------------------------------------
(* Serialization: the raw document of a validated value, fields under      *)
(* their external spelling, absent fields left out, a URL as its text.     *)

OutputKey(f) == f.alias

RECURSIVE Serialize(_)
Serialize(val) ==
    CASE val.k = "model" ->
           LET fields == FieldsOf(val.v.cls)
               present == { i \in 1..Len(fields) : val.v.fields[fields[i].name].k # "none" }
               at(key) == CHOOSE i \in present : OutputKey(fields[i]) = key
           IN MapV([key \in { OutputKey(fields[i]) : i \in present } |->
                      Serialize(val.v.fields[fields[at(key)].name])])
      [] val.k = "list" -> ListV([i \in 1..Len(val.v) |-> Serialize(val.v[i])])
      [] val.k = "map" -> MapV([key \in DOMAIN val.v |-> Serialize(val.v[key])])
      [] val.k = "url" -> StrV(val.v)
      [] OTHER -> val

---------------------------------------------------------------------------
(* The documents the model validates.  Each is a minimal valid document of *)
(* its shape changed by edits: a key set to a sample value of its field,   *)
(* set under the internal spelling of an aliased field, set under an       *)
(* undeclared name, or removed.  Samples(T, r) are the sample values of a  *)
(* type at richness r: at 0 a valid and an invalid value of each           *)
(* alternative; at 2 every string of at most MaxLen symbols, every number  *)
(* up to MaxNum, lists and mappings of two entries, None, and nested       *)
(* entities that carry an edit of their own.  A document has at most       *)
(* MaxEdits edits of richness 0, or one edit of richness 2.                *)

MaxEdits == 2
MaxLen == 2
MaxNum == 1

Alphabet == {"a", "1", Backslash}
AllStrs == UNION { [1..n -> Alphabet] : n \in 0..MaxLen }
AllNums == { IntV(n) : n \in (-MaxNum)..MaxNum } \cup { FloatV(5 * n) : n \in (-MaxNum)..MaxNum }

Absent == [k |-> "absent", v |-> <<>>]
UnknownKeys == {"bogus", "extra"}

Lower(r) == IF r > 0 THEN r - 1 ELSE 0

BaseProject ==
    [name |-> Word("demo"), platforms |-> ListV(<<Word("linux-64")>>),
     channels |-> ListV(<<Word("conda-forge")>>)]

BaseOf(cls) ==
    CASE cls = "BaseManifest" -> [project |-> MapV(BaseProject)]
      [] cls = "Project" -> BaseProject
      [] cls = "ChannelInlineTable" -> [channel |-> Word("conda-forge")]
      [] OTHER -> EmptyMap

ApplyEdit(m, e) ==
    IF e[2] = Absent THEN [key \in DOMAIN m \ {e[1]} |-> m[key]]
    ELSE (e[1] :> e[2]) @@ m

RECURSIVE Samples(_, _), EditsOf(_, _), ModelDocs(_, _, _)

Samples(T, r) ==
    CASE T.t = "constr" ->
           IF r >= 2 THEN { StrV(s) : s \in AllStrs } \cup {IntV(1)}
           ELSE IF r = 1 THEN {StrV(<<>>), StrV(<<"a">>), StrV(<<"a", Backslash>>)}
           ELSE {StrV(<<>>), StrV(<<"a">>)}
      [] T.t = "float" ->
           IF r >= 2 THEN AllNums
           ELSE {IntV(0), FloatV(5)}
      [] T.t = "int" ->
           IF r >= 1 THEN {IntV(1), StrV(<<"1">>), FloatV(5)} ELSE {IntV(1)}
      [] T.t = "bool" ->
           IF r >= 2 THEN {BoolV(TRUE), BoolV(FALSE), IntV(1), IntV(-1), FloatV(0), FloatV(5)}
           ELSE IF r = 1 THEN {BoolV(TRUE), IntV(1)}
           ELSE {BoolV(TRUE)}
      [] T.t = "url" ->
           IF r >= 2
           THEN { StrV(s) : s \in {<<>>, <<"a">>, <<HttpScheme>>, <<HttpScheme, "a">>,
                                   <<HttpScheme, "a", Slash>>, <<HttpScheme, "a", Backslash>>} }
           ELSE {StrV(<<"a">>), StrV(<<HttpScheme, "a">>)}
      [] T.t = "nullable" ->
           Samples(T.inner, r) \cup (IF r >= 2 THEN {None} ELSE {})
      [] T.t = "union" ->
           UNION { Samples(T.alts[i], r) : i \in 1..Len(T.alts) }
      [] T.t = "list" ->
           LET items == Samples(T.item, Lower(r))
           IN { ListV(<<i>>) : i \in items }
              \cup (IF r >= 1 THEN {ListV(<<>>)} ELSE {})
              \cup (IF r >= 2 THEN { ListV(<<i, j>>) : i \in items, j \in items } ELSE {})
      [] T.t = "dict" ->
           LET values == Samples(T.value, Lower(r))
               few == Samples(T.value, 0)
           IN { MapV("x" :> v) : v \in values }
              \cup (IF r >= 1 THEN {MapV(EmptyMap)} ELSE {})
              \cup (IF r >= 2
                    THEN { MapV(("x" :> v) @@ ("y" :> w)) : v \in few, w \in few }
                         \cup { MapV("" :> v) : v \in few }
                    ELSE {})
      [] T.t = "model" ->
           IF r >= 2 THEN { MapV(m) : m \in ModelDocs(T.cls, 1, 1) }
           ELSE {MapV(BaseOf(T.cls)), MapV(("bogus" :> IntV(1)) @@ BaseOf(T.cls))}

EditsOf(cls, r) ==
    LET fields == FieldsOf(cls)
        F == 1..Len(fields)
    IN UNION { { <<fields[i].alias, v>> : v \in Samples(fields[i].type, r) } : i \in F }
       \cup UNION { { <<fields[i].name, v>> :
                       v \in { w \in Samples(fields[i].type, 0) :
                                 ValidateAs(fields[i].type, w).ok } } :
                     i \in { j \in F : fields[j].alias # fields[j].name } }
       \cup { <<key, IntV(1)>> : key \in UnknownKeys }
       \cup { <<key, Absent>> : key \in DOMAIN BaseOf(cls) }

ModelDocs(cls, n, r) ==
    IF n = 0 THEN {BaseOf(cls)}
    ELSE LET fewer == ModelDocs(cls, n - 1, r)
         IN fewer \cup { ApplyEdit(m, e) : m \in fewer, e \in EditsOf(cls, r) }

---------------------------------------------------------------------------
(* The documents of the spec's scenarios *)

Scenario1 == MapV([project |-> MapV(BaseProject)])
Scenario2 == MapV([project |-> MapV([platforms |-> ListV(<<Word("linux-64")>>)])])
Scenario4 == MapV([cmd |-> Word("build.sh"), depends_on |-> Word("setup")])
Scenario5Table == MapV([channel |-> Word("conda-forge"), priority |-> IntV(1)])
Scenario5Bare == Word("conda-forge")

---------------------------------------------------------------------------
(* The shapes a document is validated as: every entity, and every          *)
(* polymorphic type of the source.                                         *)

UnionShapes ==
    { "Channel", "ChannelInlineTable.channel", "MatchSpec", "PyPIRequirement", "Task",
      "TaskInlineTable.cmd", "TaskInlineTable.depends_on", "LibcFamily.version",
      "SystemRequirements.linux", "SystemRequirements.unix", "SystemRequirements.libc",
      "SystemRequirements.cuda", "SystemRequirements.macos",
      "BaseManifest.environments.value" }

FieldType(cls, name) == FieldsOf(cls)[FieldIndex(FieldsOf(cls), name)].type

(* The union a polymorphic field declares, without its "| None". *)
UnionOf(T) == IF T.t = "nullable" THEN T.inner ELSE T

UnionType(u) ==
    CASE u = "Channel" -> Channel
      [] u = "ChannelInlineTable.channel" -> UnionOf(FieldType("ChannelInlineTable", "channel"))
      [] u = "MatchSpec" -> MatchSpec
      [] u = "PyPIRequirement" -> PyPIRequirement
      [] u = "Task" -> Task
      [] u = "TaskInlineTable.cmd" -> UnionOf(FieldType("TaskInlineTable", "cmd"))
      [] u = "TaskInlineTable.depends_on" -> UnionOf(FieldType("TaskInlineTable", "depends_on"))
      [] u = "LibcFamily.version" -> UnionOf(FieldType("LibcFamily", "version"))
      [] u = "SystemRequirements.linux" -> UnionOf(FieldType("SystemRequirements", "linux"))
      [] u = "SystemRequirements.unix" -> UnionOf(FieldType("SystemRequirements", "unix"))
      [] u = "SystemRequirements.libc" -> UnionOf(FieldType("SystemRequirements", "libc"))
      [] u = "SystemRequirements.cuda" -> UnionOf(FieldType("SystemRequirements", "cuda"))
      [] u = "SystemRequirements.macos" -> UnionOf(FieldType("SystemRequirements", "macos"))
      [] u = "BaseManifest.environments.value" ->
           UnionOf(FieldType("BaseManifest", "environments")).value

IsEntity(s) == s \in Entities
ShapeType(s) == IF IsEntity(s) THEN Model(s) ELSE UnionType(s)

(* A manifest with six separate problems, four of them inside project. *)
ManyProblems ==
    MapV([project |-> MapV([platforms |-> ListV(<<StrV(<<>>)>>),
                            license_file |-> StrV(<<"a", Backslash>>),
                            bogus |-> IntV(1)]),
          extra |-> IntV(1),
          host_dependencies |-> MapV("x" :> StrV(<<"a">>))])

ScenariosOf(s) ==
    CASE s = "BaseManifest" -> {Scenario1, Scenario2, ManyProblems}
      [] s = "TaskInlineTable" -> {Scenario4}
      [] s = "Task" -> {Scenario4}
      [] s = "TaskInlineTable.depends_on" -> {Word("setup")}
      [] s = "Channel" -> {Scenario5Table, Scenario5Bare}
      [] OTHER -> {}

EntityDocs(cls) ==
    { MapV(m) : m \in ModelDocs(cls, MaxEdits, 0) \cup ModelDocs(cls, 1, 2) }

DocsOf(s) ==
    (IF IsEntity(s) THEN EntityDocs(s) ELSE Samples(UnionType(s), 2)) \cup ScenariosOf(s)

---------------------------------------------------------------------------
(* The state machine: a caller hands a raw document to the validator of a  *)
(* shape, and may dump a valid result and validate the dump again.         *)

NoResult == [ok |-> FALSE, val |-> None, errs |-> <<>>]

InitOver(shapes) ==
    /\ shape \in shapes
    /\ doc \in DocsOf(shape)
    /\ pc = "input"
    /\ result = NoResult
    /\ redoc = None
    /\ reresult = NoResult

Init == InitOver(Entities \cup UnionShapes)

DoValidate ==
    /\ pc = "input"
    /\ result' = ValidateAs(ShapeType(shape), doc)
    /\ pc' = "validated"
    /\ UNCHANGED <<shape, doc, redoc, reresult>>

DoSerialize ==
    /\ pc = "validated"
    /\ result.ok
    /\ redoc' = Serialize(result.val)
    /\ pc' = "serialized"
    /\ UNCHANGED <<shape, doc, result, reresult>>

DoRevalidate ==
    /\ pc = "serialized"
    /\ reresult' = ValidateAs(ShapeType(shape), redoc)
    /\ pc' = "done"
    /\ UNCHANGED <<shape, doc, result, redoc>>

Next == DoValidate \/ DoSerialize \/ DoRevalidate

Spec == Init /\ [][Next]_vars

---------------------------------------------------------------------------
(* Reading an outcome *)

Last(seq) == seq[Len(seq)]
Validated == pc # "input"

ErrorsOf(r, type) == { i \in 1..Len(r.errs) : r.errs[i].type = type }
(* The spec's violation kinds, as pydantic names them. *)
UnknownFields(r) == ErrorsOf(r, "extra_forbidden")
MissingFields(r) == ErrorsOf(r, "missing")
ConstraintViolations(r) ==
    ErrorsOf(r, "string_too_short") \cup ErrorsOf(r, "string_pattern_mismatch")
        \cup ErrorsOf(r, "greater_than")

(* The violations located at or below the top-level key of a mapping. *)
ErrorsUnder(r, key) == { i \in 1..Len(r.errs) : r.errs[i].loc[1] = key }

ExternalNames(cls) == { FieldsOf(cls)[i].alias : i \in 1..Len(FieldsOf(cls)) }
InternalNames(cls) == { FieldsOf(cls)[i].name : i \in 1..Len(FieldsOf(cls)) }
AliasedFields(cls) ==
    { i \in 1..Len(FieldsOf(cls)) : FieldsOf(cls)[i].alias # FieldsOf(cls)[i].name }

---------------------------------------------------------------------------
(* C1: closed world.  Validating a mapping as any of the twelve entities   *)
(* fails when it holds a key outside the entity's external field names,    *)
(* and every such key has its own UnknownField violation, at that key.     *)
C1_ClosedWorld ==
    (Validated /\ IsEntity(shape)) =>
        \A key \in DOMAIN doc.v \ ExternalNames(shape) :
            /\ ~result.ok
            /\ \E i \in UnknownFields(result) : result.errs[i].loc = <<key>>

C1_Witness ==
    /\ pc = "validated"
    /\ shape = "Feature"
    /\ UnknownKeys \subseteq DOMAIN doc.v
    /\ Cardinality(UnknownFields(result)) = 2

---------------------------------------------------------------------------
(* C2: aliases.  A mapping that supplies an aliased field under its        *)
(* underscored internal name is rejected with an UnknownField at that key; *)
(* when that is its only violation, the same mapping with the key spelled  *)
(* with hyphens validates, and the field holds the validated value.        *)
Respelled(m, from, to) ==
    [key \in (DOMAIN m \ {from}) \cup {to} |-> IF key = to THEN m[from] ELSE m[key]]

C2_Alias ==
    (Validated /\ IsEntity(shape)) =>
        \A i \in AliasedFields(shape) :
            LET f == FieldsOf(shape)[i]
                hyphenated == ValidateAs(Model(shape), MapV(Respelled(doc.v, f.name, f.alias)))
                value == ValidateAs(f.type, doc.v[f.name])
            IN f.name \in DOMAIN doc.v =>
                 /\ ~result.ok
                 /\ \E j \in UnknownFields(result) : result.errs[j].loc = <<f.name>>
                 /\ (Len(result.errs) = 1 /\ value.ok /\ f.alias \notin DOMAIN doc.v) =>
                       /\ hyphenated.ok
                       /\ hyphenated.val.v.fields[f.name] = value.val
                       /\ hyphenated.val.v.fields[f.name] # None

C2_Witness ==
    /\ pc = "validated"
    /\ shape = "Environment"
    /\ DOMAIN doc.v = {"solve_group"}
    /\ doc.v["solve_group"] = StrV(<<"a">>)
    /\ Len(result.errs) = 1

---------------------------------------------------------------------------
(* C3: validating {"project": {"platforms": ["linux-64"]}} fails with      *)
(* exactly one MissingField violation, at project.name.                    *)
C3_Scenario2 ==
    (Validated /\ shape = "BaseManifest" /\ doc = Scenario2) =>
        /\ ~result.ok
        /\ Cardinality(MissingFields(result)) = 1
        /\ \A i \in MissingFields(result) : result.errs[i].loc = <<"project", "name">>

C3_Witness == pc = "validated" /\ shape = "BaseManifest" /\ doc = Scenario2

---------------------------------------------------------------------------
(* C4: Project.channels is required: a manifest whose project has a valid  *)
(* name and valid platforms but no channels key fails with a MissingField  *)
(* whose path ends in channels.                                            *)
ProjectLacksOnlyChannels ==
    /\ doc.k = "map"
    /\ "project" \in DOMAIN doc.v
    /\ doc.v["project"].k = "map"
    /\ LET p == doc.v["project"].v
       IN /\ "channels" \notin DOMAIN p
          /\ {"name", "platforms"} \subseteq DOMAIN p
          /\ ValidateAs(NonEmptyStr, p["name"]).ok
          /\ ValidateAs(ListOf(NonEmptyStr), p["platforms"]).ok

C4_ChannelsRequired ==
    (Validated /\ shape = "BaseManifest" /\ ProjectLacksOnlyChannels) =>
        /\ ~result.ok
        /\ \E i \in MissingFields(result) : Last(result.errs[i].loc) = "channels"

(* What the code does with such a manifest when nothing else is wrong. *)
C4_Accepted ==
    /\ pc = "validated"
    /\ shape = "BaseManifest"
    /\ doc = MapV([project |-> MapV([name |-> Word("demo"),
                                     platforms |-> ListV(<<Word("linux-64")>>)])])
    /\ result.ok
    /\ result.val.v.fields["project"].v.fields["channels"] = None

---------------------------------------------------------------------------
(* C5: aggregation.  A problem of a mapping is a key (present with another *)
(* value than in the minimal valid document, or missing from it) that      *)
(* alone makes the document invalid; a problem key that holds a nested     *)
(* entity counts the problems inside that entity.  A document with N >= 2  *)
(* problems fails with at least N violations, at least one under every     *)
(* problem key; and an outcome is either a complete instance with no       *)
(* violation or no value with at least one violation.                      *)
ChangedKeys(cls, m) ==
    { key \in DOMAIN m \cup DOMAIN BaseOf(cls) :
        \/ key \notin DOMAIN m
        \/ key \notin DOMAIN BaseOf(cls)
        \/ m[key] # BaseOf(cls)[key] }

OnlyChange(cls, m, key) ==
    IF key \in DOMAIN m THEN (key :> m[key]) @@ BaseOf(cls)
    ELSE [other \in DOMAIN BaseOf(cls) \ {key} |-> BaseOf(cls)[other]]

ProblemKeys(cls, m) ==
    { key \in ChangedKeys(cls, m) :
        ~ValidateAs(Model(cls), MapV(OnlyChange(cls, m, key))).ok }

(* The entity a key of cls holds, "" when it holds none. *)
NestedEntity(cls, key) ==
    LET F == { i \in 1..Len(FieldsOf(cls)) :
                 /\ FieldsOf(cls)[i].alias = key
                 /\ UnionOf(FieldsOf(cls)[i].type).t = "model" }
    IN IF F = {} THEN "" ELSE UnionOf(FieldsOf(cls)[CHOOSE i \in F : TRUE].type).cls

RECURSIVE SumOver(_, _)
SumOver(S, count) ==
    IF S = {} THEN 0
    ELSE LET x == CHOOSE y \in S : TRUE IN count[x] + SumOver(S \ {x}, count)

RECURSIVE ProblemCount(_, _)
ProblemCount(cls, m) ==
    LET keys == ProblemKeys(cls, m)
        count == [key \in keys |->
                    IF key \in DOMAIN m /\ NestedEntity(cls, key) # "" /\ m[key].k = "map"
                    THEN ProblemCount(NestedEntity(cls, key), m[key].v)
                    ELSE 1]
    IN SumOver(keys, count)

C5_Aggregation ==
    (pc = "validated" /\ IsEntity(shape)) =>
        LET keys == ProblemKeys(shape, doc.v)
            n == ProblemCount(shape, doc.v)
        IN /\ Cardinality(keys) >= 2 =>
                /\ ~result.ok
                /\ Len(result.errs) >= n
                /\ n >= Cardinality(keys)
                /\ \A key \in keys : ErrorsUnder(result, key) # {}
           /\ n >= 2 => (~result.ok /\ Len(result.errs) >= n)
           /\ result.ok =>
                /\ result.errs = <<>>
                /\ result.val.k = "model"
                /\ DOMAIN result.val.v.fields = InternalNames(shape)
           /\ ~result.ok => (Len(result.errs) >= 1 /\ result.val = None)

C5_Witness ==
    /\ pc = "validated"
    /\ shape = "BaseManifest"
    /\ doc = ManyProblems
    /\ ProblemCount(shape, doc.v) = 6
    /\ Len(result.errs) = 6

---------------------------------------------------------------------------
(* C6: polymorphic resolution.  An alternative accepts an input as it is   *)
(* when its validator takes the input without converting it (strict), and  *)
(* accepts it when its validator, used alone, takes it (conversions        *)
(* included).                                                              *)
AltsOf(u) == UnionType(u).alts
AcceptsAsIs(T, x) == Validate(T, x, <<>>, TRUE).ok
AcceptsAlone(T, x) == ValidateAs(T, x).ok
AsIs(u, x) == { i \in 1..Len(AltsOf(u)) : AcceptsAsIs(AltsOf(u)[i], x) }
Alone(u, x) == { i \in 1..Len(AltsOf(u)) : AcceptsAlone(AltsOf(u)[i], x) }
First(S) == CHOOSE i \in S : \A j \in S : i <= j

EveryAlternativeListed(u, r) ==
    /\ ~r.ok
    /\ \A i \in 1..Len(AltsOf(u)) : ErrorsUnder(r, AltLabel(AltsOf(u)[i])) # {}

(* C6 as claimed: the value resolves to the first alternative, in declared *)
(* order, that accepts the input; an input no alternative accepts fails    *)
(* with every alternative listed.                                          *)
C6_FirstAccepting ==
    (Validated /\ shape \in UnionShapes) =>
        IF Alone(shape, doc) # {}
        THEN /\ result.ok
             /\ result.val = ValidateAs(AltsOf(shape)[First(Alone(shape, doc))], doc).val
        ELSE EveryAlternativeListed(shape, result)

(* C6 as amended: the value resolves to the first alternative that accepts *)
(* the input as it is; when none does, to the first alternative that       *)
(* accepts it after conversion; an input no alternative accepts fails with *)
(* every alternative listed.  The task of scenario 4 resolves depends_on   *)
(* to the single string, and the channels of scenario 5 resolve to the     *)
(* bare string and to the table.                                           *)
C6_SmartResolution ==
    /\ (Validated /\ shape \in UnionShapes) =>
         IF AsIs(shape, doc) # {}
         THEN /\ result.ok
              /\ result.val = ValidateAs(AltsOf(shape)[First(AsIs(shape, doc))], doc).val
         ELSE IF Alone(shape, doc) # {}
         THEN /\ result.ok
              /\ result.val = ValidateAs(AltsOf(shape)[First(Alone(shape, doc))], doc).val
         ELSE EveryAlternativeListed(shape, result)
    /\ (Validated /\ shape = "TaskInlineTable" /\ doc = Scenario4) =>
         (result.ok /\ result.val.v.fields["depends_on"] = Word("setup"))
    /\ (Validated /\ shape = "Channel" /\ doc = Scenario5Bare) =>
         (result.ok /\ result.val = Word("conda-forge"))
    /\ (Validated /\ shape = "Channel" /\ doc = Scenario5Table) =>
         (result.ok /\ result.val.k = "model" /\ result.val.v.cls = "ChannelInlineTable")

(* A numeral given as text: the float alternative, first in order, would   *)
(* take it, and the value stays the string.                                *)
C6_Witness ==
    /\ pc = "validated"
    /\ shape = "SystemRequirements.cuda"
    /\ doc = StrV(<<"1">>)
    /\ 1 \in Alone(shape, doc)
    /\ result.val = StrV(<<"1">>)

---------------------------------------------------------------------------
(* C7: absent is not empty.  Scenario 1 validates with every field it does *)
(* not supply absent (None); and in every valid document of every entity,  *)
(* an optional list, mapping or table field that is not supplied is None,  *)
(* while the same document supplying it empty validates to another value,  *)
(* whose field is not None.                                                *)
EmptyOf(T) == IF UnionOf(T).t = "list" THEN ListV(<<>>) ELSE MapV(EmptyMap)

CollectionFields(cls) ==
    { i \in 1..Len(FieldsOf(cls)) :
        /\ ~FieldsOf(cls)[i].required
        /\ UnionOf(FieldsOf(cls)[i].type).t \in {"list", "dict", "model"} }

C7_AbsentNotEmpty ==
    /\ (Validated /\ shape = "BaseManifest" /\ doc = Scenario1) =>
         /\ result.ok
         /\ \A n \in InternalNames("BaseManifest") \ {"project"} :
                result.val.v.fields[n] = None
         /\ \A n \in InternalNames("Project") \ DOMAIN BaseProject :
                result.val.v.fields["project"].v.fields[n] = None
    /\ (Validated /\ IsEntity(shape) /\ result.ok) =>
         \A i \in CollectionFields(shape) :
             LET f == FieldsOf(shape)[i]
                 withEmpty == ValidateAs(Model(shape),
                                         MapV((f.alias :> EmptyOf(f.type)) @@ doc.v))
             IN f.alias \notin DOMAIN doc.v =>
                  /\ result.val.v.fields[f.name] = None
                  /\ withEmpty.ok
                  /\ withEmpty.val.v.fields[f.name] # None
                  /\ withEmpty.val # result.val

C7_Witness == pc = "validated" /\ shape = "BaseManifest" /\ doc = Scenario1 /\ result.ok

---------------------------------------------------------------------------
(* C8: round trip.  The dump of a valid manifest, fields under their       *)
(* external spelling, validates again, to a manifest equal to the first.   *)
C8_RoundTrip ==
    (pc = "done" /\ shape = "BaseManifest") =>
        (reresult.ok /\ reresult.val = result.val)

C8_Witness ==
    /\ pc = "done"
    /\ shape = "BaseManifest"
    /\ "host-dependencies" \in DOMAIN doc.v
    /\ result.val.v.fields["host_dependencies"] # None
    /\ "tasks" \in DOMAIN redoc.v
    /\ reresult.val = result.val

---------------------------------------------------------------------------
(* C9: the path fields.                                                    *)
PathKeys(cls) ==
    CASE cls = "Project" -> {"license_file", "readme"}
      [] cls = "TaskInlineTable" -> {"cwd"}
      [] OTHER -> {}

NoBackslashIn(s) == \A i \in 1..Len(s) : s[i] # Backslash

PathFieldAccepts(accepted(_)) ==
    (Validated /\ IsEntity(shape)) =>
        \A key \in PathKeys(shape) \cap DOMAIN doc.v :
            LET x == doc.v[key]
                alone == ValidateAs(FieldType(shape, key), x)
            IN x.k = "str" =>
                 IF accepted(x.v)
                 THEN /\ ErrorsUnder(result, key) = {}
                      /\ alone.ok /\ alone.val = x
                      /\ result.ok => result.val.v.fields[key] = x
                 ELSE /\ ~result.ok
                      /\ \E i \in ConstraintViolations(result) : result.errs[i].loc = <<key>>

(* C9 as claimed: license_file, readme and cwd accept exactly the strings  *)
(* without a backslash, unchanged; any other string is a                   *)
(* ConstraintViolation.                                                    *)
C9_NoBackslash == PathFieldAccepts(NoBackslashIn)

(* C9 as amended: they accept exactly the non-empty strings without a      *)
(* backslash, unchanged; the empty string and every string with a          *)
(* backslash is a ConstraintViolation.                                     *)
NonEmptyNoBackslash(s) == Len(s) >= 1 /\ NoBackslashIn(s)
C9_NonEmptyNoBackslash == PathFieldAccepts(NonEmptyNoBackslash)

C9_Witness ==
    /\ pc = "validated"
    /\ shape = "Project"
    /\ "license_file" \in DOMAIN doc.v
    /\ doc.v["license_file"] = StrV(<<>>)
    /\ \E i \in ConstraintViolations(result) : result.errs[i].loc = <<"license_file">>

---------------------------------------------------------------------------
(* C10: the version fields of the system requirements.  A number is        *)
(* accepted for linux and macos only when it is greater than 0, and for    *)
(* cuda, libc and LibcFamily.version whatever it is; in all of them a      *)
(* string is accepted exactly when it is not empty.                        *)
PositiveKeys(cls) == IF cls = "SystemRequirements" THEN {"linux", "macos"} ELSE {}
AnyNumberKeys(cls) ==
    CASE cls = "SystemRequirements" -> {"cuda", "libc"}
      [] cls = "LibcFamily" -> {"version"}
      [] OTHER -> {}

C10_SystemRequirementNumbers ==
    (Validated /\ IsEntity(shape)) =>
        \A key \in (PositiveKeys(shape) \cup AnyNumberKeys(shape)) \cap DOMAIN doc.v :
            LET x == doc.v[key]
                accepted == ErrorsUnder(result, key) = {}
            IN /\ x.k \in {"int", "float"} =>
                    (accepted <=> (key \in PositiveKeys(shape) => x.v > 0))
               /\ x.k = "str" => (accepted <=> Len(x.v) >= 1)

C10_Witness ==
    /\ pc = "validated"
    /\ shape = "SystemRequirements"
    /\ DOMAIN doc.v = {"linux", "cuda"}
    /\ doc.v["linux"] = IntV(0)
    /\ doc.v["cuda"] = IntV(0)
    /\ ErrorsUnder(result, "linux") # {}
    /\ ErrorsUnder(result, "cuda") = {}

====
